---- MODULE Spec2Model ----
(***************************************************************************)
(* A model of advanced-vector/vector.h: RawMemory<T> (an owned block of    *)
(* raw storage) and Vector<T> (a growable array built on it).              *)
(*                                                                         *)
(* The heap is a finite set of block ids; every block records, slot by     *)
(* slot, whether an element is constructed there and which value it holds. *)
(* Every call that can throw (operator new, a constructor or assignment of *)
(* T) is a fault point: an operation is run with a fuse f, and the f-th    *)
(* fault point it reaches throws (f = 0: nothing throws).  Positions are   *)
(* 0-based as in the code; slot i of a block is slots[i + 1].              *)
(***************************************************************************)
EXTENDS Integers, Sequences, FiniteSets, TLC

\* ---------------------------------------------------------------- bounds
MemLimit  == 9       \* slots the allocator can hand out to a program with one Vector
MemLimit2 == 5       \* ... and to a program with two Vectors
MaxN      == 4       \* largest size/capacity argument a caller passes
MemPush   == 12      \* slots there are for the program that only calls PushBack

\* ------------------------------------------------------------- constants
Null         == 0    \* nullptr
Uninit       == -1   \* a slot of raw memory holding no object
Moved        == -2   \* the value of a moved-from object
DefaultValue == 0    \* T()
Values       == {0, 1}
VecSeq       == <<"a", "b">>
VecIds       == {VecSeq[k] : k \in 1..Len(VecSeq)}
\* every Vector owns at most one block, and a call holds at most one more
BlockIds     == 1..(Len(VecSeq) + 1)

\* The element types T the template is instantiated with.  What vector.h
\* tests is is_nothrow_move_constructible_v<T> (nothrow_move) and
\* is_copy_constructible_v<T> (copyable); whether operator=(T&&) can throw
\* (nothrow_move_assign) is a property of T no trait of the code looks at.
\* TMove and TMoveAssignThrows take the transfer (move) strategy, TCopy and
\* TCopyAssignNoexcept the duplicate (copy) one.
TMove == [nothrow_move |-> TRUE,  copyable |-> TRUE, nothrow_move_assign |-> TRUE]
TCopy == [nothrow_move |-> FALSE, copyable |-> TRUE, nothrow_move_assign |-> FALSE]
TMoveAssignThrows   == [nothrow_move |-> TRUE,  copyable |-> TRUE, nothrow_move_assign |-> FALSE]
TCopyAssignNoexcept == [nothrow_move |-> FALSE, copyable |-> TRUE, nothrow_move_assign |-> TRUE]
Types == {TMove, TCopy, TMoveAssignThrows, TCopyAssignNoexcept}

\* The programs explored: the Vector objects declared, the memory there is,
\* the element type.  What two Vectors do to each other does not depend on T.
Programs == { [objs |-> {"a"}, mem |-> MemLimit, T |-> t] : t \in Types }
            \cup { [objs |-> {"a", "b"}, mem |-> MemLimit2, T |-> TMove] }

VARIABLES
  env,      \* the program (fixed for a run)
  vec,      \* vec[v] = [alive, data_ = [buffer_, capacity_], size_]
  heap,     \* heap[b] = [used, slots]
  ret,      \* the last call: operation, how it ended, what it returned
  faults    \* the lifetime errors the last call made (ghost)

vars == <<env, vec, heap, ret, faults>>

\* ------------------------------------------------------------ RawMemory
EmptyRaw == [buffer_ |-> Null, capacity_ |-> 0]
FreeBlock == [used |-> FALSE, slots |-> <<>>]

Slot(h, b, i) == h[b].slots[i + 1]
IsLive(s) == s /= Uninit

UsedSlots(h) ==
  LET RECURSIVE Sum(_)
      Sum(b) == IF b = 0 THEN 0 ELSE Len(h[b].slots) + Sum(b - 1)
  IN Sum(Len(VecSeq) + 1)

FreeIds(h) == {b \in BlockIds : ~h[b].used}
MinOf(S) == CHOOSE x \in S : \A y \in S : x <= y

\* The fuse: m.ticks fault points were passed, and the m.fuse-th one throws.
Throws(m) == m.ticks + 1 = m.fuse
Tick(m) == [m EXCEPT !.ticks = @ + 1]
Raise(m, what) == [m EXCEPT !.exc = what]
Failed(m) == m.exc /= "none"

\* operator new has room for n more slots
HasRoom(h, n) == FreeIds(h) /= {} /\ UsedSlots(h) + n <= env.mem

\* RawMemory(size_t capacity): the new object is left in m.tmp
Allocate(m, n) ==
  IF n = 0 THEN [m EXCEPT !.tmp = EmptyRaw]
  ELSE IF Throws(m) \/ ~HasRoom(m.heap, n) THEN Raise(m, "bad_alloc")
  ELSE LET b == MinOf(FreeIds(m.heap))
       IN [Tick(m) EXCEPT !.heap[b] = [used |-> TRUE, slots |-> [i \in 1..n |-> Uninit]],
                          !.tmp = [buffer_ |-> b, capacity_ |-> n]]

\* ~RawMemory: operator delete(buffer_)
Deallocate(m, b) ==
  IF b = Null THEN m
  ELSE IF ~m.heap[b].used THEN [m EXCEPT !.faults = @ \cup {"double_free"}]
  ELSE [m EXCEPT !.heap[b] = FreeBlock,
                 !.faults = IF \E i \in 1..Len(m.heap[b].slots) : IsLive(m.heap[b].slots[i])
                            THEN @ \cup {"lost_elem"} ELSE @]

\* RawMemory(RawMemory&&) without zeroing other
RawMoveCtor_KeepsSource(other) == << other, other >>

\* RawMemory(RawMemory&& other): <<the new object, other afterwards>>
RawMoveCtor(other) == << other, EmptyRaw >>

\* RawMemory::operator=(RawMemory&& rhs): <<this afterwards, rhs afterwards>>
RawMoveAssign(this, rhs, same) ==
  IF ~same THEN << rhs, EmptyRaw >> ELSE << this, this >>

\* RawMemory::Swap: <<this afterwards, other afterwards>>
RawSwap(this, other) == << other, this >>

\* ------------------------------------------------- element lifetime steps
T == env.T

\* the move branch taken whatever T is
UseMove_Always == TRUE

\* the if constexpr of Emplace and Reserve
UseMove == T.nothrow_move \/ ~T.copyable

\* placement new at slot i of block b
ConstructAt(m, b, i, val) ==
  [m EXCEPT !.heap[b].slots[i + 1] = IF val = Uninit THEN Moved ELSE val,
            !.faults = (IF IsLive(Slot(m.heap, b, i)) THEN @ \cup {"lost_elem"} ELSE @)
                       \cup (IF val = Uninit THEN {"read_dead"} ELSE {})]

\* std::destroy_at
DestroyAt(m, b, i) ==
  [m EXCEPT !.heap[b].slots[i + 1] = Uninit,
            !.faults = IF IsLive(Slot(m.heap, b, i)) THEN @ ELSE @ \cup {"destroy_dead"}]

\* assignment to the object at slot i
AssignAt(m, b, i, val) ==
  [m EXCEPT !.heap[b].slots[i + 1] = IF val = Uninit THEN Moved ELSE val,
            !.faults = (IF IsLive(Slot(m.heap, b, i)) THEN @ ELSE @ \cup {"assign_dead"})
                       \cup (IF val = Uninit THEN {"read_dead"} ELSE {})]

\* the source of a move is left moved-from
MoveOut(m, b, i) == [m EXCEPT !.heap[b].slots[i + 1] = Moved]

RECURSIVE DestroyN(_, _, _, _)
DestroyN(m, b, o, n) ==
  IF n = 0 THEN m ELSE DestroyN(DestroyAt(m, b, o), b, o + 1, n - 1)

\* ------------------------------------------------------ what T can throw
MoveThrows == ~T.nothrow_move                  \* T(T&&)
MoveAssignThrows == ~T.nothrow_move_assign     \* operator=(T&&)
\* T(const T&), operator=(const T&), T() and T(args...) can always throw.

\* a fault point in front of step
Guarded(m, canThrow) ==
  IF canThrow /\ Throws(m) THEN Raise(m, "elem")
  ELSE IF canThrow THEN Tick(m) ELSE m

\* ------------------------------------------------------- <memory> helpers
RECURSIVE UninitCopyFrom(_, _, _, _, _, _, _)
UninitCopyFrom(m, sb, so, n, db, do, k) ==
  IF k = n THEN m
  ELSE IF Throws(m) THEN Raise(DestroyN(m, db, do, k), "elem")
  ELSE UninitCopyFrom(ConstructAt(Tick(m), db, do + k, Slot(m.heap, sb, so + k)),
                      sb, so, n, db, do, k + 1)

\* std::uninitialized_copy_n(src + so, n, dst + do): all or nothing
uninitialized_copy_n(m, sb, so, n, db, do) ==
  IF Failed(m) THEN m ELSE UninitCopyFrom(m, sb, so, n, db, do, 0)

RECURSIVE UninitMoveFrom(_, _, _, _, _, _, _)
UninitMoveFrom(m, sb, so, n, db, do, k) ==
  IF k = n THEN m
  ELSE IF MoveThrows /\ Throws(m) THEN Raise(DestroyN(m, db, do, k), "elem")
  ELSE UninitMoveFrom(
         MoveOut(ConstructAt(Guarded(m, MoveThrows), db, do + k, Slot(m.heap, sb, so + k)),
                 sb, so + k),
         sb, so, n, db, do, k + 1)

\* std::uninitialized_move_n: the sources are left moved-from
uninitialized_move_n(m, sb, so, n, db, do) ==
  IF Failed(m) THEN m ELSE UninitMoveFrom(m, sb, so, n, db, do, 0)

RECURSIVE UninitValueFrom(_, _, _, _, _)
UninitValueFrom(m, b, o, n, k) ==
  IF k = n THEN m
  ELSE IF Throws(m) THEN Raise(DestroyN(m, b, o, k), "elem")
  ELSE UninitValueFrom(ConstructAt(Tick(m), b, o + k, DefaultValue), b, o, n, k + 1)

\* a loop of placement new that leaves what it constructed when one throws
RECURSIVE ValueLoop_NoRollback(_, _, _, _, _)
ValueLoop_NoRollback(m, b, o, n, k) ==
  IF k = n THEN m
  ELSE IF Throws(m) THEN Raise(m, "elem")
  ELSE ValueLoop_NoRollback(ConstructAt(Tick(m), b, o + k, DefaultValue), b, o, n, k + 1)

value_construct_n_NoRollback(m, b, o, n) ==
  IF Failed(m) THEN m ELSE ValueLoop_NoRollback(m, b, o, n, 0)

\* std::uninitialized_value_construct_n: all or nothing
uninitialized_value_construct_n(m, b, o, n) ==
  IF Failed(m) THEN m ELSE UninitValueFrom(m, b, o, n, 0)

\* std::move_backward(b + first, b + last, b + d_last)
RECURSIVE move_backward(_, _, _, _, _)
move_backward(m, b, first, last, d_last) ==
  IF Failed(m) \/ first = last THEN m
  ELSE LET g == Guarded(m, MoveAssignThrows)
       IN IF Failed(g) THEN g
          ELSE move_backward(
                 MoveOut(AssignAt(g, b, d_last - 1, Slot(m.heap, b, last - 1)), b, last - 1),
                 b, first, last - 1, d_last - 1)

\* std::copy_backward(b + first, b + last, b + d_last)
RECURSIVE copy_backward(_, _, _, _, _)
copy_backward(m, b, first, last, d_last) ==
  IF Failed(m) \/ first = last THEN m
  ELSE LET g == Guarded(m, TRUE)
       IN IF Failed(g) THEN g
          ELSE copy_backward(AssignAt(g, b, d_last - 1, Slot(m.heap, b, last - 1)),
                             b, first, last - 1, d_last - 1)

\* std::move(b + first, b + last, b + d_first)
RECURSIVE move_forward(_, _, _, _, _)
move_forward(m, b, first, last, d_first) ==
  IF Failed(m) \/ first = last THEN m
  ELSE LET g == Guarded(m, MoveAssignThrows)
       IN IF Failed(g) THEN g
          ELSE move_forward(
                 MoveOut(AssignAt(g, b, d_first, Slot(m.heap, b, first)), b, first),
                 b, first + 1, last, d_first + 1)

\* ------------------------------------------------------------------ Vector
Data(m, v) == m.vec[v].data_
Buf(m, v)  == m.vec[v].data_.buffer_
Cap(m, v)  == m.vec[v].data_.capacity_
Sz(m, v)   == m.vec[v].size_

\* The value std::forward<Args>(args)... denotes when it is read in state m.
\* [val |-> x] is an object of the caller's holding x; [vec |-> v, index |-> k]
\* is the const T& the caller got from v[k]: it is slot k of the block v had
\* when the call was made, read at the moment the code reads it.
Forwarded(m, arg) ==
  IF "val" \in DOMAIN arg THEN arg.val
  ELSE Slot(m.heap, vec[arg.vec].data_.buffer_, arg.index)

\* new (b + i) T(std::forward<Args>(args)...); whichever constructor of T the
\* arguments select can throw
ConstructFrom(m, b, i, arg) ==
  IF Failed(m) THEN m
  ELSE LET g == Guarded(m, TRUE)
       IN IF Failed(g) THEN g ELSE ConstructAt(g, b, i, Forwarded(g, arg))

\* data_.Swap(new_data), new_data being m.tmp
SwapWithTmp(m, v) ==
  LET sw == RawSwap(Data(m, v), m.tmp)
  IN [m EXCEPT !.vec[v].data_ = sw[1], !.tmp = sw[2]]

\* the tail of a reallocation: swap the blocks, destroy the sz old elements,
\* and let new_data (now the old block) go out of scope
CommitNewData(m, v, sz) ==
  LET m1 == SwapWithTmp(m, v)
      m2 == DestroyN(m1, m1.tmp.buffer_, 0, sz)
  IN Deallocate(m2, m2.tmp.buffer_)

\* Reserve comparing new_capacity with size_ instead of Capacity()
Reserve_ComparesSize(m, v, new_capacity) ==
  IF new_capacity <= Sz(m, v) THEN m
  ELSE LET m1 == Allocate(m, new_capacity)
       IN IF Failed(m1) THEN m1
          ELSE LET nb == m1.tmp.buffer_
                   m2 == IF UseMove
                         THEN uninitialized_move_n(m1, Buf(m, v), 0, Sz(m, v), nb, 0)
                         ELSE uninitialized_copy_n(m1, Buf(m, v), 0, Sz(m, v), nb, 0)
               IN IF Failed(m2) THEN Deallocate(m2, nb)
                  ELSE CommitNewData(m2, v, Sz(m, v))

\* Vector::Reserve
Reserve(m, v, new_capacity) ==
  IF new_capacity <= Cap(m, v) THEN m
  ELSE LET m1 == Allocate(m, new_capacity)
       IN IF Failed(m1) THEN m1
          ELSE LET nb == m1.tmp.buffer_
                   m2 == IF UseMove
                         THEN uninitialized_move_n(m1, Buf(m, v), 0, Sz(m, v), nb, 0)
                         ELSE uninitialized_copy_n(m1, Buf(m, v), 0, Sz(m, v), nb, 0)
               IN IF Failed(m2) THEN Deallocate(m2, nb)
                  ELSE CommitNewData(m2, v, Sz(m, v))

\* EmplaceWMove without the std::move_backward
EmplaceWMove_NoShift(m, v, num_pos, arg) ==
  LET b == Buf(m, v)
      sz == Sz(m, v)
  IN IF sz > 0 /\ num_pos /= sz
     THEN LET tmp_val == Forwarded(m, arg)
              m1 == Guarded(m, TRUE)
              m2 == IF Failed(m1) THEN m1 ELSE Guarded(m1, MoveThrows)
              m3 == IF Failed(m2) THEN m2
                    ELSE MoveOut(ConstructAt(m2, b, sz, Slot(m2.heap, b, sz - 1)), b, sz - 1)
              m5 == IF Failed(m3) THEN m3 ELSE Guarded(m3, MoveAssignThrows)
          IN IF Failed(m5) THEN m5 ELSE AssignAt(m5, b, num_pos, tmp_val)
     ELSE ConstructFrom(m, b, num_pos, arg)

\* Vector::EmplaceWMove
EmplaceWMove(m, v, num_pos, arg) ==
  LET b == Buf(m, v)
      sz == Sz(m, v)
  IN IF sz > 0 /\ num_pos /= sz
     THEN LET tmp_val == Forwarded(m, arg)
              m1 == Guarded(m, TRUE)                              \* T tmp_val(args...)
              m2 == IF Failed(m1) THEN m1 ELSE Guarded(m1, MoveThrows)
              m3 == IF Failed(m2) THEN m2
                    ELSE MoveOut(ConstructAt(m2, b, sz, Slot(m2.heap, b, sz - 1)), b, sz - 1)
              m4 == move_backward(m3, b, num_pos, sz - 1, sz)
              m5 == IF Failed(m4) THEN m4 ELSE Guarded(m4, MoveAssignThrows)
          IN IF Failed(m5) THEN m5 ELSE AssignAt(m5, b, num_pos, tmp_val)
     ELSE ConstructFrom(m, b, num_pos, arg)

\* EmplaceWCopy without tmp_val: the argument is read when it is assigned
EmplaceWCopy_NoTmp(m, v, num_pos, arg) ==
  LET b == Buf(m, v)
      sz == Sz(m, v)
  IN IF sz > 0 /\ num_pos /= sz
     THEN LET m1 == Guarded(m, TRUE)
              m2 == IF Failed(m1) THEN m1 ELSE Guarded(m1, MoveThrows)
              m3 == IF Failed(m2) THEN m2
                    ELSE MoveOut(ConstructAt(m2, b, sz, Slot(m2.heap, b, sz - 1)), b, sz - 1)
              m4 == copy_backward(m3, b, num_pos, sz - 1, sz)
              m5 == IF Failed(m4) THEN m4 ELSE Guarded(m4, MoveAssignThrows)
          IN IF Failed(m5) THEN m5 ELSE AssignAt(m5, b, num_pos, Forwarded(m5, arg))
     ELSE ConstructFrom(m, b, num_pos, arg)

\* Vector::EmplaceWCopy
EmplaceWCopy(m, v, num_pos, arg) ==
  LET b == Buf(m, v)
      sz == Sz(m, v)
  IN IF sz > 0 /\ num_pos /= sz
     THEN LET tmp_val == Forwarded(m, arg)
              m1 == Guarded(m, TRUE)                              \* T tmp_val(args...)
              m2 == IF Failed(m1) THEN m1 ELSE Guarded(m1, MoveThrows)
              m3 == IF Failed(m2) THEN m2
                    ELSE MoveOut(ConstructAt(m2, b, sz, Slot(m2.heap, b, sz - 1)), b, sz - 1)
              m4 == copy_backward(m3, b, num_pos, sz - 1, sz)
              m5 == IF Failed(m4) THEN m4 ELSE Guarded(m4, MoveAssignThrows)
          IN IF Failed(m5) THEN m5 ELSE AssignAt(m5, b, num_pos, tmp_val)
     ELSE ConstructFrom(m, b, num_pos, arg)

\* growing by one slot instead of doubling
GrowTo_PlusOne(sz) == sz + 1

\* the capacity the growth path of Emplace asks for
GrowTo(sz) == IF sz > 0 THEN sz * 2 ELSE 1

\* the growth path taking the move branch whatever T is
EmplaceGrow_AlwaysMoves(m, v, num_pos, arg) ==
  LET sz == Sz(m, v)
      ob == Buf(m, v)
      m1 == Allocate(m, GrowTo(sz))
  IN IF Failed(m1) THEN m1
     ELSE LET nb == m1.tmp.buffer_
              m2 == ConstructFrom(m1, nb, num_pos, arg)
              m3 == uninitialized_move_n(m2, ob, 0, num_pos, nb, 0)
              m4 == IF num_pos = sz THEN m3
                    ELSE uninitialized_move_n(m3, ob, num_pos, sz - num_pos, nb, num_pos + 1)
          IN IF Failed(m4) THEN Deallocate(m4, nb)
             ELSE CommitNewData(m4, v, sz)

\* Vector::Emplace, growth path (size_ == Capacity())
EmplaceGrow(m, v, num_pos, arg) ==
  LET sz == Sz(m, v)
      ob == Buf(m, v)
      m1 == Allocate(m, GrowTo(sz))
  IN IF Failed(m1) THEN m1
     ELSE LET nb == m1.tmp.buffer_
              m2 == ConstructFrom(m1, nb, num_pos, arg)
              m3 == IF UseMove THEN uninitialized_move_n(m2, ob, 0, num_pos, nb, 0)
                               ELSE uninitialized_copy_n(m2, ob, 0, num_pos, nb, 0)
              m4 == IF num_pos = sz THEN m3
                    ELSE IF UseMove
                         THEN uninitialized_move_n(m3, ob, num_pos, sz - num_pos, nb, num_pos + 1)
                         ELSE uninitialized_copy_n(m3, ob, num_pos, sz - num_pos, nb, num_pos + 1)
          IN IF Failed(m4) THEN Deallocate(m4, nb)
             ELSE CommitNewData(m4, v, sz)

\* Emplace reallocating already when one free slot is left
Emplace_GrowsEarly(m, v, num_pos, arg) ==
  LET m1 == IF Sz(m, v) + 1 >= Cap(m, v) THEN EmplaceGrow(m, v, num_pos, arg)
            ELSE IF UseMove THEN EmplaceWMove(m, v, num_pos, arg)
            ELSE EmplaceWCopy(m, v, num_pos, arg)
  IN IF Failed(m1) THEN m1
     ELSE [m1 EXCEPT !.vec[v].size_ = @ + 1, !.it = num_pos]

\* Vector::Emplace; the iterator returned is left in m.it
Emplace(m, v, num_pos, arg) ==
  LET m1 == IF Sz(m, v) = Cap(m, v) THEN EmplaceGrow(m, v, num_pos, arg)
            ELSE IF UseMove THEN EmplaceWMove(m, v, num_pos, arg)
            ELSE EmplaceWCopy(m, v, num_pos, arg)
  IN IF Failed(m1) THEN m1
     ELSE [m1 EXCEPT !.vec[v].size_ = @ + 1, !.it = num_pos]

\* Erase dropping the last element instead of the one at pos
Erase_DropsLast(m, v, num_pos) ==
  [DestroyAt(m, Buf(m, v), Sz(m, v) - 1) EXCEPT !.vec[v].size_ = @ - 1, !.it = num_pos]

\* Vector::Erase (noexcept: an exception leaving it ends the program)
Erase(m, v, num_pos) ==
  LET b == Buf(m, v)
      m1 == move_forward(m, b, num_pos + 1, Sz(m, v), num_pos)
  IN IF Failed(m1) THEN [m1 EXCEPT !.exc = "terminate"]
     ELSE [DestroyAt(m1, b, Sz(m, v) - 1) EXCEPT !.vec[v].size_ = @ - 1, !.it = num_pos]

\* Vector::PopBack
PopBack(m, v) ==
  [DestroyAt(m, Buf(m, v), Sz(m, v) - 1) EXCEPT !.vec[v].size_ = @ - 1]

\* Resize shrinking by size_ = new_size alone
Resize_ShrinkKeeps(m, v, new_size) ==
  IF Sz(m, v) = new_size THEN m
  ELSE IF Sz(m, v) > new_size
  THEN [m EXCEPT !.vec[v].size_ = new_size]
  ELSE LET m1 == Reserve(m, v, new_size)
           m2 == uninitialized_value_construct_n(m1, Buf(m1, v), Sz(m, v), new_size - Sz(m, v))
       IN IF Failed(m2) THEN m2 ELSE [m2 EXCEPT !.vec[v].size_ = new_size]

\* Vector::Resize
Resize(m, v, new_size) ==
  IF Sz(m, v) = new_size THEN m
  ELSE IF Sz(m, v) > new_size
  THEN [DestroyN(m, Buf(m, v), new_size, Sz(m, v) - new_size) EXCEPT !.vec[v].size_ = new_size]
  ELSE LET m1 == Reserve(m, v, new_size)
           m2 == uninitialized_value_construct_n(m1, Buf(m1, v), Sz(m, v), new_size - Sz(m, v))
       IN IF Failed(m2) THEN m2 ELSE [m2 EXCEPT !.vec[v].size_ = new_size]

\* ~Vector of the object rec = [alive, data_, size_]
Destructor(m, rec) ==
  Deallocate(DestroyN(m, rec.data_.buffer_, 0, rec.size_), rec.data_.buffer_)

\* Vector::Swap on two objects: <<this afterwards, other afterwards>>
SwapRec(this, other) ==
  LET sw == RawSwap(this.data_, other.data_)
  IN << [this EXCEPT !.data_ = sw[1], !.size_ = other.size_],
        [other EXCEPT !.data_ = sw[2], !.size_ = this.size_] >>

\* Vector(size_t size): data_ of the new object is left in m.tmp
SizeCtor(m, size) ==
  LET m1 == Allocate(m, size)
  IN IF Failed(m1) THEN m1
     ELSE LET m2 == uninitialized_value_construct_n(m1, m1.tmp.buffer_, 0, size)
          IN IF Failed(m2) THEN Deallocate(m2, m1.tmp.buffer_) ELSE m2

\* a copy constructor copying the members: both objects point to one block
CopyCtor_Shallow(m, w) == [m EXCEPT !.tmp = Data(m, w)]

\* Vector(const Vector& other): data_ of the new object is left in m.tmp
CopyCtor(m, w) ==
  LET m1 == Allocate(m, Sz(m, w))
  IN IF Failed(m1) THEN m1
     ELSE LET m2 == uninitialized_copy_n(m1, Buf(m, w), 0, Sz(m, w), m1.tmp.buffer_, 0)
          IN IF Failed(m2) THEN Deallocate(m2, m1.tmp.buffer_) ELSE m2

\* Vector(Vector&&) without other.size_ = 0
MoveCtor_KeepsSourceSize(m, v, w) ==
  LET mc == RawMoveCtor(Data(m, w))
  IN [m EXCEPT !.vec[v] = [alive |-> TRUE, data_ |-> mc[1], size_ |-> Sz(m, w)],
               !.vec[w] = [@ EXCEPT !.data_ = mc[2]]]

\* Vector(Vector&& other), constructing v from w
MoveCtor(m, v, w) ==
  LET mc == RawMoveCtor(Data(m, w))
  IN [m EXCEPT !.vec[v] = [alive |-> TRUE, data_ |-> mc[1], size_ |-> Sz(m, w)],
               !.vec[w] = [@ EXCEPT !.data_ = mc[2], !.size_ = 0]]

\* data_[i] = rhs[i] for i in [from, to)
RECURSIVE AssignLoop(_, _, _, _, _)
AssignLoop(m, rb, b, from, to) ==
  IF Failed(m) \/ from >= to THEN m
  ELSE LET g == Guarded(m, TRUE)
       IN IF Failed(g) THEN g
          ELSE AssignLoop(AssignAt(g, b, from, Slot(m.heap, rb, from)), rb, b, from + 1, to)

\* new (data_ + i) T(rhs[i]) for i in [from, to)
RECURSIVE ConstructLoop(_, _, _, _, _)
ConstructLoop(m, rb, b, from, to) ==
  IF Failed(m) \/ from >= to THEN m
  ELSE LET g == Guarded(m, TRUE)
       IN IF Failed(g) THEN g
          ELSE ConstructLoop(ConstructAt(g, b, from, Slot(m.heap, rb, from)), rb, b, from + 1, to)

\* operator=(const Vector&) without the loop that destroys the excess elements
CopyAssign_KeepsExcess(m, v, w) ==
  IF v = w THEN m
  ELSE IF Sz(m, w) > Cap(m, v)
  THEN LET m1 == CopyCtor(m, w)
       IN IF Failed(m1) THEN m1
          ELSE LET rhs_copy == [alive |-> TRUE, data_ |-> m1.tmp, size_ |-> Sz(m, w)]
                   sw == SwapRec(m1.vec[v], rhs_copy)
               IN Destructor([m1 EXCEPT !.vec[v] = sw[1]], sw[2])
  ELSE LET b == Buf(m, v)
           rb == Buf(m, w)
       IN IF Sz(m, v) >= Sz(m, w)
          THEN LET m1 == AssignLoop(m, rb, b, 0, Sz(m, w))
               IN IF Failed(m1) THEN m1
                  ELSE [m1 EXCEPT !.vec[v].size_ = Sz(m, w)]
          ELSE LET m1 == AssignLoop(m, rb, b, 0, Sz(m, v))
                   m2 == ConstructLoop(m1, rb, b, Sz(m, v), Sz(m, w))
               IN IF Failed(m2) THEN m2 ELSE [m2 EXCEPT !.vec[v].size_ = Sz(m, w)]

\* operator=(const Vector&) clearing *this before it builds rhs_copy
CopyAssign_ClearsFirst(m, v, w) ==
  IF v = w THEN m
  ELSE IF Sz(m, w) > Cap(m, v)
  THEN LET m0 == [DestroyN(m, Buf(m, v), 0, Sz(m, v)) EXCEPT !.vec[v].size_ = 0]
           m1 == CopyCtor(m0, w)
       IN IF Failed(m1) THEN m1
          ELSE LET rhs_copy == [alive |-> TRUE, data_ |-> m1.tmp, size_ |-> Sz(m, w)]
                   sw == SwapRec(m1.vec[v], rhs_copy)
               IN Destructor([m1 EXCEPT !.vec[v] = sw[1]], sw[2])
  ELSE LET b == Buf(m, v)
           rb == Buf(m, w)
       IN IF Sz(m, v) >= Sz(m, w)
          THEN LET m1 == AssignLoop(m, rb, b, 0, Sz(m, w))
               IN IF Failed(m1) THEN m1
                  ELSE [DestroyN(m1, b, Sz(m, w), Sz(m, v) - Sz(m, w))
                          EXCEPT !.vec[v].size_ = Sz(m, w)]
          ELSE LET m1 == AssignLoop(m, rb, b, 0, Sz(m, v))
                   m2 == ConstructLoop(m1, rb, b, Sz(m, v), Sz(m, w))
               IN IF Failed(m2) THEN m2 ELSE [m2 EXCEPT !.vec[v].size_ = Sz(m, w)]

\* Vector::operator=(const Vector& rhs), v = w
CopyAssign(m, v, w) ==
  IF v = w THEN m
  ELSE IF Sz(m, w) > Cap(m, v)
  THEN LET m1 == CopyCtor(m, w)                                   \* Vector rhs_copy(rhs)
       IN IF Failed(m1) THEN m1
          ELSE LET rhs_copy == [alive |-> TRUE, data_ |-> m1.tmp, size_ |-> Sz(m, w)]
                   sw == SwapRec(m1.vec[v], rhs_copy)
               IN Destructor([m1 EXCEPT !.vec[v] = sw[1]], sw[2])
  ELSE LET b == Buf(m, v)
           rb == Buf(m, w)
       IN IF Sz(m, v) >= Sz(m, w)
          THEN LET m1 == AssignLoop(m, rb, b, 0, Sz(m, w))
               IN IF Failed(m1) THEN m1
                  ELSE [DestroyN(m1, b, Sz(m, w), Sz(m, v) - Sz(m, w))
                          EXCEPT !.vec[v].size_ = Sz(m, w)]
          ELSE LET m1 == AssignLoop(m, rb, b, 0, Sz(m, v))
                   m2 == ConstructLoop(m1, rb, b, Sz(m, v), Sz(m, w))
               IN IF Failed(m2) THEN m2 ELSE [m2 EXCEPT !.vec[v].size_ = Sz(m, w)]

\* operator=(Vector&&) without size_ = std::move(rhs.size_)
MoveAssign_KeepsSize(m, v, w) ==
  LET ma == RawMoveAssign(Data(m, v), Data(m, w), v = w)
      m1 == [m EXCEPT !.vec[v].data_ = ma[1]]
      m2 == [m1 EXCEPT !.vec[w].data_ = ma[2]]
  IN [m2 EXCEPT !.vec[w].size_ = 0]

\* Vector::operator=(Vector&& rhs), v = std::move(w)
MoveAssign(m, v, w) ==
  LET ma == RawMoveAssign(Data(m, v), Data(m, w), v = w)
      m1 == [m EXCEPT !.vec[v].data_ = ma[1]]
      m2 == [m1 EXCEPT !.vec[w].data_ = ma[2]]
      m3 == [m2 EXCEPT !.vec[v].size_ = Sz(m, w)]
  IN [m3 EXCEPT !.vec[w].size_ = 0]

\* Vector::Swap, v.Swap(w)
Swap(m, v, w) ==
  LET sw == SwapRec(m.vec[v], m.vec[w])
      m1 == [m EXCEPT !.vec[v] = sw[1]]
  IN IF v = w THEN m ELSE [m1 EXCEPT !.vec[w] = sw[2]]

\* v[index] = val through Vector::operator[]
SetAt(m, v, index, val) ==
  LET g == Guarded(m, TRUE)
  IN IF Failed(g) THEN g ELSE AssignAt(g, Buf(m, v), index, val)

\* ----------------------------------------------------------------- actions
NoVec == [alive |-> FALSE, data_ |-> EmptyRaw, size_ |-> 0]
NoCall == [op |-> "none", status |-> "none", it |-> 0, moved |-> {}]
CallRec(op) == [op |-> op, status |-> "none", it |-> 0, moved |-> {}]

Init ==
  /\ env \in Programs
  /\ vec = [v \in VecIds |-> NoVec]
  /\ heap = [b \in BlockIds |-> FreeBlock]
  /\ ret = NoCall
  /\ faults = {}

Start(f) == [heap |-> heap, vec |-> vec, tmp |-> EmptyRaw, it |-> 0,
             fuse |-> f, ticks |-> 0, exc |-> "none", faults |-> {}]

\* the fuses worth trying on a call: m0 is its run with no fuse set
Fuses(m0) == IF Failed(m0) THEN {0} ELSE 0..m0.ticks
\* the caller is between two calls: it makes the next one only when it is done
\* with what the last one returned or threw
Idle == ret.op = "none"
Alive(v) == v \in env.objs /\ vec[v].alive
Dead(v) == v \in env.objs /\ ~vec[v].alive

\* the blocks some Vector's data_ points to
Owned(vs) == {vs[v].data_.buffer_ : v \in {x \in VecIds : vs[x].alive}} \ {Null}
Orphans(h, vs) == {b \in BlockIds : h[b].used /\ b \notin Owned(vs)}
HasLive(blk) == \E i \in 1..Len(blk.slots) : IsLive(blk.slots[i])

\* the number of leading slots of block b some Vector can still read
Readable(b, vs) ==
  LET S == {vs[v].size_ : v \in {x \in VecIds : vs[x].alive /\ vs[x].data_.buffer_ = b}}
  IN IF S = {} THEN 0 ELSE CHOOSE x \in S : \A y \in S : y <= x

\* No operation reads a slot outside [0, size_) of its owner before constructing
\* into it: of such a slot only whether an object lives there is kept.  A block
\* nothing points to can never be read or freed again: it is dropped from the
\* heap, and the leak is recorded.
Forget(h, vs) ==
  [b \in BlockIds |->
     IF ~h[b].used THEN h[b]
     ELSE IF b \in Orphans(h, vs) THEN FreeBlock
     ELSE [h[b] EXCEPT !.slots =
             [i \in 1..Len(@) |-> IF i > Readable(b, vs) /\ IsLive(@[i]) THEN Moved ELSE @[i]]]]
ForgetFaults(h, vs) ==
  (IF Orphans(h, vs) /= {} THEN {"leaked_block"} ELSE {})
  \cup (IF \E b \in Orphans(h, vs) : HasLive(h[b]) THEN {"lost_elem"} ELSE {})

\* the distinct blocks the Vectors point to, in the order of VecSeq
RECURSIVE Pointers(_, _, _)
Pointers(vs, k, acc) ==
  IF k > Len(VecSeq) THEN acc
  ELSE LET p == vs[VecSeq[k]].data_.buffer_
       IN Pointers(vs, k + 1,
                   IF p = Null \/ (\E i \in 1..Len(acc) : acc[i] = p) THEN acc
                   ELSE Append(acc, p))
Rank(p, ptrs) == CHOOSE i \in 1..Len(ptrs) : ptrs[i] = p

\* An address means nothing beyond being equal to another or not: when a call
\* ends the blocks are renamed in the order of their owners.
RenameHeap(h, vs) ==
  LET ptrs == Pointers(vs, 1, <<>>)
  IN [b \in BlockIds |-> IF b <= Len(ptrs) THEN h[ptrs[b]] ELSE FreeBlock]
RenameVecs(vs) ==
  LET ptrs == Pointers(vs, 1, <<>>)
  IN [v \in VecIds |->
        IF vs[v].data_.buffer_ = Null THEN vs[v]
        ELSE [vs[v] EXCEPT !.data_.buffer_ = Rank(@, ptrs)]]

\* the Vectors whose data_.GetAddress() the call changed
MovedBy(m) ==
  {v \in VecIds : vec[v].alive /\ m.vec[v].alive
                  /\ m.vec[v].data_.buffer_ /= vec[v].data_.buffer_}

\* what the caller has in hand when the call ends: which call it was, the
\* iterator it returned or the exception it threw
Outcome(m, call) ==
  IF Failed(m) THEN [call EXCEPT !.status = m.exc, !.moved = MovedBy(m)]
  ELSE [call EXCEPT !.status = "ok", !.it = m.it, !.moved = MovedBy(m)]

Finish(m, call) ==
  /\ heap' = RenameHeap(Forget(m.heap, m.vec), m.vec)
  /\ vec' = RenameVecs(m.vec)
  /\ faults' = m.faults \cup ForgetFaults(m.heap, m.vec)
  /\ ret' = Outcome(m, call)
  /\ UNCHANGED env

\* a constructor: the object exists only if it did not throw
FinishCtor(m, v, size, call) ==
  Finish(IF Failed(m) THEN m
         ELSE [m EXCEPT !.vec[v] = [alive |-> TRUE, data_ |-> m.tmp, size_ |-> size]], call)

\* ---- one call each, run with fuse f
DefaultCtorCall(v) == FinishCtor(Start(0), v, 0, CallRec("Vector()"))
SizeCtorCall(v, n, f) == FinishCtor(SizeCtor(Start(f), n), v, n, CallRec("Vector(n)"))
CopyCtorCall(v, w, f) ==
  FinishCtor(CopyCtor(Start(f), w), v, vec[w].size_, CallRec("Vector(const&)"))
MoveCtorCall(v, w) == Finish(MoveCtor(Start(0), v, w), CallRec("Vector(&&)"))
DestructorCall(v) ==
  Finish([Destructor(Start(0), vec[v]) EXCEPT !.vec[v] = NoVec], CallRec("~Vector"))
ReserveCall(v, n, f) == Finish(Reserve(Start(f), v, n), CallRec("Reserve"))
ResizeCall(v, n, f) == Finish(Resize(Start(f), v, n), CallRec("Resize"))
\* PushBack(const T&) / PushBack(T&&) / EmplaceBack: Emplace(cend(), ...)
PushBackCall(v, x, f) ==
  Finish(Emplace(Start(f), v, vec[v].size_, [val |-> x]), CallRec("PushBack"))
PopBackCall(v) == Finish(PopBack(Start(0), v), CallRec("PopBack"))
\* Insert(pos, const T&) / Insert(pos, T&&) / Emplace(pos, args...)
InsertCall(v, pos, x, f) ==
  Finish(Emplace(Start(f), v, pos, [val |-> x]), CallRec("Insert"))
\* Insert(pos, v[k]): the const T& refers to an element of the Vector itself
InsertElemCall(v, pos, k, f) ==
  Finish(Emplace(Start(f), v, pos, [vec |-> v, index |-> k]), CallRec("Insert(v[k])"))
\* PushBack(v[k])
PushBackElemCall(v, k, f) ==
  Finish(Emplace(Start(f), v, vec[v].size_, [vec |-> v, index |-> k]), CallRec("PushBack(v[k])"))
EraseCall(v, pos, f) == Finish(Erase(Start(f), v, pos), CallRec("Erase"))
CopyAssignCall(v, w, f) ==
  Finish(CopyAssign(Start(f), v, w), CallRec("operator=(const&)"))
MoveAssignCall(v, w) == Finish(MoveAssign(Start(0), v, w), CallRec("operator=(&&)"))
SwapCall(v, w) == Finish(Swap(Start(0), v, w), CallRec("Swap"))
SetAtCall(v, i, x, f) == Finish(SetAt(Start(f), v, i, x), CallRec("operator[]="))

\* ---- the actions: a call within its preconditions, with any fuse
DoDefaultCtor(v) == Idle /\ Dead(v) /\ DefaultCtorCall(v)

DoSizeCtor(v, n) ==
  /\ Idle /\ Dead(v)
  /\ \E f \in Fuses(SizeCtor(Start(0), n)) : SizeCtorCall(v, n, f)

DoCopyCtor(v, w) ==
  /\ Idle /\ Dead(v) /\ Alive(w) /\ T.copyable
  /\ \E f \in Fuses(CopyCtor(Start(0), w)) : CopyCtorCall(v, w, f)

DoMoveCtor(v, w) == Idle /\ Dead(v) /\ Alive(w) /\ MoveCtorCall(v, w)

DoDestructor(v) == Idle /\ Alive(v) /\ DestructorCall(v)

DoReserve(v, n) ==
  /\ Idle /\ Alive(v)
  /\ \E f \in Fuses(Reserve(Start(0), v, n)) : ReserveCall(v, n, f)

DoResize(v, n) ==
  /\ Idle /\ Alive(v)
  /\ \E f \in Fuses(Resize(Start(0), v, n)) : ResizeCall(v, n, f)

DoPushBack(v, x) ==
  /\ Idle /\ Alive(v)
  /\ \E f \in Fuses(Emplace(Start(0), v, vec[v].size_, [val |-> x])) : PushBackCall(v, x, f)

DoPopBack(v) == Idle /\ Alive(v) /\ vec[v].size_ > 0 /\ PopBackCall(v)

DoInsert(v, pos, x) ==
  /\ Idle /\ Alive(v) /\ pos <= vec[v].size_
  /\ \E f \in Fuses(Emplace(Start(0), v, pos, [val |-> x])) : InsertCall(v, pos, x, f)

DoInsertElem(v, pos, k) ==
  /\ Idle /\ Alive(v) /\ T.copyable /\ pos <= vec[v].size_ /\ k < vec[v].size_
  /\ \E f \in Fuses(Emplace(Start(0), v, pos, [vec |-> v, index |-> k])) :
        InsertElemCall(v, pos, k, f)

DoPushBackElem(v, k) ==
  /\ Idle /\ Alive(v) /\ T.copyable /\ k < vec[v].size_
  /\ \E f \in Fuses(Emplace(Start(0), v, vec[v].size_, [vec |-> v, index |-> k])) :
        PushBackElemCall(v, k, f)

DoErase(v, pos) ==
  /\ Idle /\ Alive(v) /\ pos < vec[v].size_
  /\ \E f \in Fuses(Erase(Start(0), v, pos)) : EraseCall(v, pos, f)

DoCopyAssign(v, w) ==
  /\ Idle /\ Alive(v) /\ Alive(w) /\ T.copyable
  /\ \E f \in Fuses(CopyAssign(Start(0), v, w)) : CopyAssignCall(v, w, f)

DoMoveAssign(v, w) == Idle /\ Alive(v) /\ Alive(w) /\ MoveAssignCall(v, w)

DoSwap(v, w) == Idle /\ Alive(v) /\ Alive(w) /\ SwapCall(v, w)

DoSetAt(v, i, x) ==
  /\ Idle /\ Alive(v) /\ i < vec[v].size_
  /\ \E f \in Fuses(SetAt(Start(0), v, i, x)) : SetAtCall(v, i, x, f)

\* The caller drops the iterator or catches the exception of the last call and
\* goes on.  A noexcept function that threw has ended the program.
Return ==
  /\ ret.op /= "none" /\ ret.status /= "terminate"
  /\ ret' = NoCall
  /\ faults' = {}
  /\ UNCHANGED <<env, vec, heap>>

Next ==
  \/ Return
  \/ \E v \in VecIds : DoDefaultCtor(v)
  \/ \E v \in VecIds, n \in 0..MaxN : DoSizeCtor(v, n)
  \/ \E v \in VecIds, w \in VecIds : DoCopyCtor(v, w)
  \/ \E v \in VecIds, w \in VecIds : DoMoveCtor(v, w)
  \/ \E v \in VecIds : DoDestructor(v)
  \/ \E v \in VecIds, n \in 0..MaxN : DoReserve(v, n)
  \/ \E v \in VecIds, n \in 0..MaxN : DoResize(v, n)
  \/ \E v \in VecIds, x \in Values : DoPushBack(v, x)
  \/ \E v \in VecIds : DoPopBack(v)
  \/ \E v \in VecIds, pos \in 0..MaxN, x \in Values : DoInsert(v, pos, x)
  \/ \E v \in VecIds, pos \in 0..MaxN, k \in 0..MaxN : DoInsertElem(v, pos, k)
  \/ \E v \in VecIds, k \in 0..MaxN : DoPushBackElem(v, k)
  \/ \E v \in VecIds, pos \in 0..MaxN : DoErase(v, pos)
  \/ \E v \in VecIds, w \in VecIds : DoCopyAssign(v, w)
  \/ \E v \in VecIds, w \in VecIds : DoMoveAssign(v, w)
  \/ \E v \in VecIds, w \in VecIds : DoSwap(v, w)
  \/ \E v \in VecIds, i \in 0..MaxN, x \in Values : DoSetAt(v, i, x)

Spec == Init /\ [][Next]_vars

\* A program that default-constructs one Vector and then only calls PushBack.
InitPush ==
  /\ env \in {[objs |-> {"a"}, mem |-> MemPush, T |-> t] : t \in Types}
  /\ vec = [v \in VecIds |-> IF v = "a" THEN [NoVec EXCEPT !.alive = TRUE] ELSE NoVec]
  /\ heap = [b \in BlockIds |-> FreeBlock]
  /\ ret = NoCall
  /\ faults = {}

NextPush ==
  \/ Return
  \/ \E x \in Values : DoPushBack("a", x)

SpecPush == InitPush /\ [][NextPush]_vars

\* ------------------------------------------------------------ observations
Size(v) == vec[v].size_
Capacity(v) == vec[v].data_.capacity_
Buffer(v) == vec[v].data_.buffer_

\* the values of the elements [0, size_) of v in the state (h, vs)
ElemsOf(h, vs, v) ==
  [i \in 1..vs[v].size_ |-> h[vs[v].data_.buffer_].slots[i]]
Elems(v) == ElemsOf(heap, vec, v)

\* the slots of v's block where an object lives, in the state (h, vs)
LiveSlotsOf(h, vs, v) ==
  IF vs[v].data_.buffer_ = Null THEN {}
  ELSE {i \in 0..(Len(h[vs[v].data_.buffer_].slots) - 1) :
          IsLive(Slot(h, vs[v].data_.buffer_, i))}

InsertAt(s, i, x) == SubSeq(s, 1, i) \o <<x>> \o SubSeq(s, i + 1, Len(s))
RemoveAt(s, i) == SubSeq(s, 1, i) \o SubSeq(s, i + 2, Len(s))
Returned == ret'.status = "ok"
Threw == ret'.status \in {"bad_alloc", "elem"}

\* in the state (h, vs): slot i of every Vector's block holds an object iff
\* i < Size()
SlotsMatchSize(h, vs) ==
  \A v \in VecIds : vs[v].alive =>
     LiveSlotsOf(h, vs, v) = 0..(vs[v].size_ - 1)

\* ------------------------------------------------------------------ claims

\* C1: in every reachable state, the states left by a call that threw
\* included, Size() <= Capacity() for every Vector.
C1_SizeWithinCapacity ==
  \A v \in VecIds : vec[v].alive => Size(v) <= Capacity(v)

\* a full Vector of four elements, just after a PushBack found no memory
C1_Witness ==
  /\ ret.op = "PushBack" /\ ret.status = "bad_alloc"
  /\ vec["a"].alive /\ Size("a") = 4 /\ Capacity("a") = 4

\* C2: as long as every call returns normally, slot i of a Vector's block
\* holds a live element exactly when i < Size(), and the slots of
\* [Size(), Capacity()) hold none: a call that returns normally keeps this.
C2_LiveIffBelowSize ==
  [][(SlotsMatchSize(heap, vec) /\ Returned) => SlotsMatchSize(heap', vec')]_vars

\* C3: Emplace/Insert at index i of a Vector of size n, returning normally:
\* the size is n + 1, the elements before i keep index and value, the new
\* element is at i, the old elements [i, n) are at [i + 1, n + 1), and the
\* iterator returned is index i of the block in use afterwards.
C3_EmplaceInsertsAtPos ==
  [][\A v \in VecIds, pos \in 0..MaxN, x \in Values :
       (ret'.op = "Insert" /\ Returned /\ Alive(v) /\ pos <= Size(v)
          /\ InsertCall(v, pos, x, 0))
       => /\ vec'[v].size_ = Size(v) + 1
          /\ ElemsOf(heap', vec', v) = InsertAt(Elems(v), pos, x)
          /\ ret'.it = pos]_vars

\* a full <<0, 0, 1>> of a copy-strategy T after 1 was inserted at index 1
C3_Witness ==
  /\ env.T = TCopy /\ ret.op = "Insert" /\ ret.status = "ok"
  /\ ret.it = 1 /\ ret.moved = {"a"}
  /\ Elems("a") = <<0, 1, 0, 1>> /\ Capacity("a") = 6

\* C4: Erase at index i < n of a Vector of size n, returning normally: the
\* size is n - 1, the elements before i keep index and value, the old
\* elements (i, n) are at [i, n - 1), the capacity and the block are the same
\* and slot n - 1 holds no live element.
C4_EraseRemovesAtPos ==
  [][\A v \in VecIds, pos \in 0..MaxN :
       (ret'.op = "Erase" /\ Returned /\ Alive(v) /\ pos < Size(v)
          /\ EraseCall(v, pos, 0))
       => /\ vec'[v].size_ = Size(v) - 1
          /\ ElemsOf(heap', vec', v) = RemoveAt(Elems(v), pos)
          /\ vec'[v].data_.capacity_ = Capacity(v)
          /\ v \notin ret'.moved
          /\ ~IsLive(Slot(heap', vec'[v].data_.buffer_, Size(v) - 1))
          /\ ret'.it = pos]_vars

\* what is left of three elements when the middle one was erased
C4_Witness ==
  /\ ret.op = "Erase" /\ ret.status = "ok" /\ ret.it = 1
  /\ Elems("a") = <<1, 0>> /\ Capacity("a") = 3
  /\ LiveSlotsOf(heap, vec, "a") = {0, 1}

\* the smallest power of two >= k, and 0 for k = 0
RECURSIVE PowerOfTwoFrom(_, _)
PowerOfTwoFrom(p, k) == IF p >= k THEN p ELSE PowerOfTwoFrom(2 * p, k)
SmallestPowerOfTwo(k) == IF k = 0 THEN 0 ELSE PowerOfTwoFrom(1, k)

\* C5: a default-constructed Vector on which only PushBack is called: every
\* call that returns appends its value and adds one to the size, so that after
\* k of them Size() = k and the elements are the values pushed, in order; no
\* call lowers the capacity; and the capacity is 0, 1, 2, 4, 8, ...: the
\* smallest power of two >= Size() (0 while empty).
C5_PushBackDoubles ==
  /\ [](Capacity("a") = SmallestPowerOfTwo(Size("a")))
  /\ [][/\ vec'["a"].data_.capacity_ >= Capacity("a")
        /\ \A x \in Values :
             (Returned /\ PushBackCall("a", x, 0))
             => /\ vec'["a"].size_ = Size("a") + 1
                /\ ElemsOf(heap', vec', "a") = Append(Elems("a"), x)]_vars

\* five values pushed: the capacity went 0, 1, 2, 4, 8
C5_Witness ==
  /\ ret.op = "PushBack" /\ ret.status = "ok" /\ ret.moved = {"a"}
  /\ Elems("a") = <<1, 0, 1, 1, 0>> /\ Capacity("a") = 8

\* C6: Reserve(n) returning normally leaves the size and every element as
\* they were; with n <= Capacity() nothing at all changes, the capacity and the
\* block included; with n > Capacity() the capacity is at least n afterwards.
C6_ReserveKeepsElements ==
  [][\A v \in VecIds, n \in 0..MaxN :
       (ret'.op = "Reserve" /\ Returned /\ Alive(v) /\ ReserveCall(v, n, 0))
       => /\ vec'[v].size_ = Size(v)
          /\ ElemsOf(heap', vec', v) = Elems(v)
          /\ n <= Capacity(v) => (vec' = vec /\ heap' = heap /\ ret'.moved = {})
          /\ n > Capacity(v) => vec'[v].data_.capacity_ >= n]_vars

\* <<0, 1>> moved to a larger block by Reserve(4)
C6_Witness ==
  /\ ret.op = "Reserve" /\ ret.status = "ok" /\ ret.moved = {"a"}
  /\ Elems("a") = <<0, 1>> /\ Capacity("a") = 4

\* C7: Reserve that throws (the allocation failed, or under the copy strategy
\* the copy of some element did): every Vector has the capacity, the size, the
\* block and the elements it had, and the new block is gone.
C7_ReserveStrong ==
  [][(ret'.op = "Reserve" /\ Threw)
       => (vec' = vec /\ heap' = heap /\ "leaked_block" \notin faults')]_vars

\* Reserve threw out of a copy while the Vector held <<1, 0>>
C7_Witness ==
  /\ env.T = TCopy /\ ret.op = "Reserve" /\ ret.status = "elem"
  /\ Elems("a") = <<1, 0>> /\ Capacity("a") = 2

\* C8: Emplace/Insert/PushBack on a full Vector (Size() = Capacity()) that
\* throws (the allocation, the construction of the new element, or under the
\* copy strategy the copy of a prefix or suffix element failed): the Vector has
\* the capacity, the size, the block and the elements it had.
C8_EmplaceGrowthStrong ==
  [][(ret'.op \in {"Insert", "PushBack"} /\ Threw)
       => \A v \in VecIds :
            (Alive(v) /\ Size(v) = Capacity(v))
            => /\ vec'[v] = vec[v]
               /\ ElemsOf(heap', vec', v) = Elems(v)
               /\ LiveSlotsOf(heap', vec', v) = LiveSlotsOf(heap, vec, v)]_vars

\* an insertion into the full <<0, 1, 1>> threw out of a constructor of T
C8_Witness ==
  /\ env.T = TCopy /\ ret.op = "Insert" /\ ret.status = "elem"
  /\ Elems("a") = <<0, 1, 1>> /\ Capacity("a") = 3

\* n elements of value T()
Defaults(n) == [i \in 1..n |-> DefaultValue]

\* C9: Resize(m) of a Vector of size n, returning normally: the size is m and
\* the elements [0, min(n, m)) are unchanged; with m < n the capacity is the
\* same and the slots [m, n) hold no live element; with m > n the elements
\* [n, m) are default-valued and the capacity is at least m; with m = n
\* nothing changes.
C9_ResizePost ==
  [][\A v \in VecIds, n \in 0..MaxN :
       (ret'.op = "Resize" /\ Returned /\ Alive(v) /\ ResizeCall(v, n, 0))
       => /\ vec'[v].size_ = n
          /\ n < Size(v) =>
               /\ ElemsOf(heap', vec', v) = SubSeq(Elems(v), 1, n)
               /\ vec'[v].data_ = vec[v].data_
               /\ \A i \in n..(Size(v) - 1) :
                    ~IsLive(Slot(heap', vec'[v].data_.buffer_, i))
          /\ n > Size(v) =>
               /\ ElemsOf(heap', vec', v) = Elems(v) \o Defaults(n - Size(v))
               /\ vec'[v].data_.capacity_ >= n
          /\ n = Size(v) => (vec' = vec /\ heap' = heap)]_vars

\* <<1>> in a block of one slot resized to 3
C9_Witness ==
  /\ ret.op = "Resize" /\ ret.status = "ok" /\ ret.moved = {"a"}
  /\ Elems("a") = <<1, 0, 0>> /\ Capacity("a") = 3

\* what a caller can read of v in the state (h, vs)
ObsOf(h, vs, v) ==
  [alive |-> vs[v].alive, size |-> vs[v].size_,
   capacity |-> vs[v].data_.capacity_, elems |-> ElemsOf(h, vs, v)]

\* v is a duplicate of what w was, w is as it was
Duplicated(v, w) ==
  /\ vec'[v].alive
  /\ vec'[v].size_ = Size(w)
  /\ ElemsOf(heap', vec', v) = Elems(w)
  /\ ObsOf(heap', vec', w) = ObsOf(heap, vec, w)

\* no block belongs to two Vectors
NoSharedBlock ==
  \A v \in VecIds, w \in VecIds :
     (v /= w /\ vec[v].alive /\ vec[w].alive /\ Buffer(v) /= Null)
     => Buffer(v) /= Buffer(w)

\* the calls that take one Vector
OnOneVector ==
  {"Vector()", "Vector(n)", "~Vector", "Reserve", "Resize", "PushBack",
   "PopBack", "Insert", "Erase", "operator[]="}

\* C10: copy construction and copy assignment (to another object), returning
\* normally, give a Vector of the source's size and elements and leave the
\* source as it was; the two never own the same block; and whatever a call on
\* one Vector does, throwing or not, the size, the capacity and the elements of
\* every other Vector stay as they were.
C10_CopyIsIndependent ==
  /\ []NoSharedBlock
  /\ [][/\ \A v \in VecIds, w \in VecIds :
             (ret'.op = "Vector(const&)" /\ Returned /\ Dead(v) /\ Alive(w)
                /\ CopyCtorCall(v, w, 0))
             => Duplicated(v, w)
        /\ \A v \in VecIds, w \in VecIds :
             (ret'.op = "operator=(const&)" /\ Returned /\ Alive(v) /\ Alive(w)
                /\ v /= w /\ CopyAssignCall(v, w, 0))
             => Duplicated(v, w)
        /\ ret'.op \in OnOneVector
             => Cardinality({u \in VecIds :
                               ObsOf(heap', vec', u) /= ObsOf(heap, vec, u)}) <= 1]_vars

\* b was just copy-assigned from a = <<1, 0>>, into a block of its own
C10_Witness ==
  /\ ret.op = "operator=(const&)" /\ ret.status = "ok"
  /\ vec["a"].alive /\ vec["b"].alive
  /\ Elems("a") = <<1, 0>> /\ Elems("b") = <<1, 0>>
  /\ Buffer("a") /= Buffer("b")

\* v has what w had, and w is empty
Transferred(v, w) ==
  /\ vec'[w].size_ = 0
  /\ vec'[v].alive
  /\ vec'[v].size_ = Size(w)
  /\ ElemsOf(heap', vec', v) = Elems(w)
  /\ vec'[v].data_.capacity_ = Capacity(w)

\* C11: move construction of B from A, and move assignment B = std::move(A)
\* to another object, whatever A holds and whatever B held: A is left with
\* Size() = 0, B has the elements A had, in order, and the capacity A had.
C11_MoveTransfers ==
  [][/\ \A v \in VecIds, w \in VecIds :
          (ret'.op = "Vector(&&)" /\ Returned /\ Dead(v) /\ Alive(w)
             /\ MoveCtorCall(v, w))
          => Transferred(v, w)
     /\ \A v \in VecIds, w \in VecIds :
          (ret'.op = "operator=(&&)" /\ Returned /\ Alive(v) /\ Alive(w)
             /\ v /= w /\ MoveAssignCall(v, w))
          => Transferred(v, w)]_vars

\* b, which owned a block of its own, was just move-assigned from a = <<1, 0>>
C11_Witness ==
  /\ ret.op = "operator=(&&)" /\ ret.status = "ok" /\ ret.moved = {"a", "b"}
  /\ "leaked_block" \in faults
  /\ vec["a"].alive /\ Size("a") = 0 /\ Capacity("a") = 0
  /\ Elems("b") = <<1, 0>> /\ Capacity("b") = 2

\* C12: ownership of a block is exclusive in every reachable state: no two
\* Vectors point to the same block, after a transfer or a swap included; the
\* block a Vector points to is allocated and has capacity_ slots (it was not
\* freed under it); and no call frees a block twice.
C12_ExclusiveOwnership ==
  /\ \A v \in VecIds : \A w \in VecIds \ {v} :
       (vec[v].alive /\ vec[w].alive /\ Buffer(w) /= Null) => Buffer(v) /= Buffer(w)
  /\ \A v \in VecIds :
       (vec[v].alive /\ Buffer(v) /= Null)
       => (heap[Buffer(v)].used /\ Len(heap[Buffer(v)].slots) = Capacity(v))
  /\ \A v \in VecIds : (vec[v].alive /\ Buffer(v) = Null) => Capacity(v) = 0
  /\ "double_free" \notin faults

\* a = <<1>> and b = <<0, 0>> just swapped their blocks
C12_Witness ==
  /\ ret.op = "Swap" /\ ret.status = "ok" /\ ret.moved = {"a", "b"}
  /\ vec["a"].alive /\ vec["b"].alive
  /\ Elems("a") = <<0, 0>> /\ Elems("b") = <<1>>
  /\ Buffer("a") /= Null /\ Buffer("b") /= Null /\ Buffer("a") /= Buffer("b")

\* C13: copy assignment v = w with w.Size() > v.Capacity() that throws (no
\* memory for the temporary copy of w, or the copy of some element of w
\* threw): v has the size, capacity, block and elements it had, w is
\* unchanged, and nothing is left behind.
C13_CopyAssignSwapStrong ==
  [][\A v \in VecIds, w \in VecIds :
       (ret'.op = "operator=(const&)" /\ Threw /\ Alive(v) /\ Alive(w)
          /\ Size(w) > Capacity(v)
          /\ \E f \in Fuses(CopyAssign(Start(0), v, w)) : CopyAssignCall(v, w, f))
       => (vec' = vec /\ heap' = heap /\ faults' = {})]_vars

\* a, empty and without a block, after a = b threw out of a copy of an
\* element of b = <<1, 0>>
C13_Witness ==
  /\ ret.op = "operator=(const&)" /\ ret.status = "elem"
  /\ vec["a"].alive /\ Size("a") = 0 /\ Capacity("a") = 0
  /\ vec["b"].alive /\ Elems("b") = <<1, 0>>

\* C14: copy assignment v = w on the reuse path with v.Size() < w.Size()
\* (<= v.Capacity()): when the construction of an extra trailing element throws
\* after j of them were constructed (the fault point Size(v) + j + 1 of the
\* call, the first Size(v) being the assignments), v.Size() is the old size
\* plus j afterwards and the slots [0, Size()) of v are live.
C14_ReuseSizeCountsConstructed ==
  [][\A v \in VecIds, w \in VecIds, j \in 0..MaxN :
       (ret'.op = "operator=(const&)" /\ Threw /\ Alive(v) /\ Alive(w) /\ v /= w
          /\ Size(v) < Size(w) /\ Size(w) <= Capacity(v)
          /\ Size(v) + j < Size(w)
          /\ CopyAssignCall(v, w, Size(v) + j + 1))
       => /\ vec'[v].size_ = Size(v) + j
          /\ \A i \in 0..(Size(v) + j - 1) : i \in LiveSlotsOf(heap', vec', v)]_vars

\* Resize(n) of v grows, its Reserve does not throw, and the construction of
\* the (j + 1)-th new element does: the fault points of the call are those of
\* Reserve followed by one for each new element
ResizeThrowsAt(v, n, j) ==
  /\ ret'.op = "Resize" /\ Threw /\ Alive(v)
  /\ n > Size(v) /\ j < n - Size(v)
  /\ ~Failed(Reserve(Start(0), v, n))
  /\ ResizeCall(v, n, Reserve(Start(0), v, n).ticks + j + 1)

\* C15: Resize(m) with m > Size() that throws while it default-constructs the
\* (j + 1)-th new element leaves Size() at the old size plus j.
C15_ResizeSizeCountsConstructed ==
  [][\A v \in VecIds, n \in 0..MaxN, j \in 0..MaxN :
       ResizeThrowsAt(v, n, j) => vec'[v].size_ = Size(v) + j]_vars

\* C15, as the code has it: Resize(m) with m > Size() that throws while it
\* default-constructs the (j + 1)-th new element destroys the j it constructed:
\* Size() and the elements are the old ones, no slot of [old size, m) holds an
\* element that was not there before, and the capacity is already the larger of
\* the old one and m.
C15_ResizeRollsBack ==
  [][\A v \in VecIds, n \in 0..MaxN, j \in 0..MaxN :
       ResizeThrowsAt(v, n, j)
       => /\ vec'[v].size_ = Size(v)
          /\ ElemsOf(heap', vec', v) = Elems(v)
          /\ \A i \in Size(v)..(n - 1) :
               i \in LiveSlotsOf(heap', vec', v) => i \in LiveSlotsOf(heap, vec, v)
          /\ vec'[v].data_.capacity_ = IF n > Capacity(v) THEN n ELSE Capacity(v)]_vars

\* Resize(3) of <<1>> moved it to a block of three slots, then a T() threw
C15_Witness ==
  /\ ret.op = "Resize" /\ ret.status = "elem" /\ ret.moved = {"a"}
  /\ Elems("a") = <<1>> /\ Capacity("a") = 3
  /\ LiveSlotsOf(heap, vec, "a") = {0}

\* the calls that have no strong guarantee on some path
NotStrong == {"Resize", "Insert", "PushBack", "operator=(const&)"}

\* C16: a call of Resize, Emplace/Insert/PushBack or copy assignment that
\* throws leaves every Vector structurally valid: Size() <= Capacity(), the
\* slots [0, Size()) hold live elements and no slot at or beyond Size() does.
C16_ValidAfterFailure ==
  [][(SlotsMatchSize(heap, vec) /\ ret'.op \in NotStrong /\ Threw)
       => /\ SlotsMatchSize(heap', vec')
          /\ \A v \in VecIds : vec'[v].alive => vec'[v].size_ <= vec'[v].data_.capacity_]_vars

\* max(1, 2 x capacity)
Doubled(c) == IF 2 * c >= 1 THEN 2 * c ELSE 1

\* C17: Emplace/Insert/PushBack in any reachable state, returning or
\* throwing: a Vector's capacity changes only if it was full (Size() =
\* Capacity()), and then to exactly max(1, 2 x the old capacity); a Vector
\* that was not full keeps its capacity and its block; and a returning call on
\* a full Vector does grow it so.
C17_GrowthPolicy ==
  [][/\ ret'.op \in {"Insert", "PushBack"}
          => \A v \in VecIds :
               Alive(v) =>
                 /\ vec'[v].data_.capacity_ /= Capacity(v)
                      => (Size(v) = Capacity(v)
                          /\ vec'[v].data_.capacity_ = Doubled(Capacity(v)))
                 /\ Size(v) < Capacity(v)
                      => (vec'[v].data_.capacity_ = Capacity(v) /\ v \notin ret'.moved)
     /\ \A v \in VecIds, pos \in 0..MaxN, x \in Values :
          (Returned /\ Alive(v) /\ pos <= Size(v) /\ Size(v) = Capacity(v)
             /\ (InsertCall(v, pos, x, 0) \/ (pos = Size(v) /\ PushBackCall(v, x, 0))))
          => (vec'[v].data_.capacity_ = Doubled(Capacity(v)) /\ v \in ret'.moved)]_vars

\* a Vector made full at capacity 3 without PushBack grew to 6 by a PushBack
C17_Witness ==
  /\ ret.op = "PushBack" /\ ret.status = "ok" /\ ret.moved = {"a"}
  /\ Size("a") = 4 /\ Capacity("a") = 6

\* C18: copy assignment v = w with w.Size() <= v.Capacity(), returning
\* normally: v has w's size and elements, v keeps its capacity and its block,
\* w is unchanged, and the former elements of v at [w.Size(), old v.Size())
\* are destroyed; v = v changes nothing.
C18_CopyAssignReuses ==
  [][\A v \in VecIds, w \in VecIds :
       (ret'.op = "operator=(const&)" /\ Returned /\ Alive(v) /\ Alive(w)
          /\ Size(w) <= Capacity(v) /\ CopyAssignCall(v, w, 0))
       => /\ v /= w =>
               /\ vec'[v].size_ = Size(w)
               /\ ElemsOf(heap', vec', v) = Elems(w)
               /\ vec'[v].data_.capacity_ = Capacity(v)
               /\ ret'.moved = {}
               /\ ObsOf(heap', vec', w) = ObsOf(heap, vec, w)
               /\ \A i \in Size(w)..(Size(v) - 1) : i \notin LiveSlotsOf(heap', vec', v)
          /\ v = w => (vec' = vec /\ heap' = heap)]_vars

\* a, with a block of three slots, was assigned b = <<1>>
C18_Witness ==
  /\ ret.op = "operator=(const&)" /\ ret.status = "ok" /\ ret.moved = {}
  /\ vec["a"].alive /\ vec["b"].alive
  /\ Elems("a") = <<1>> /\ Capacity("a") = 3 /\ LiveSlotsOf(heap, vec, "a") = {0}
  /\ Elems("b") = <<1>> /\ Capacity("b") = 1

\* C19: nothing is orphaned: no call leaves a block that no Vector owns, loses
\* an element without destroying it, or frees or destroys anything twice; and
\* between calls every allocated block is owned by a Vector and every live
\* element lies in [0, Size()) of its owner's block.
C19_NothingOrphaned ==
  /\ faults \cap {"leaked_block", "lost_elem", "double_free", "destroy_dead"} = {}
  /\ Orphans(heap, vec) = {}
  /\ SlotsMatchSize(heap, vec)

\* C20: Insert(i, v[k]) and PushBack(v[k]), the argument being a const
\* reference to element k of the Vector itself, returning normally: index i
\* (the end for PushBack) holds a copy of the value v[k] had before the call
\* and the other elements keep their order, whether the call reallocated or
\* shifted in place; no element was read outside its lifetime.
C20_SelfAliasInsert ==
  [][\A v \in VecIds, k \in 0..MaxN :
       (Alive(v) /\ T.copyable /\ k < Size(v) /\ Returned)
       => /\ \A pos \in 0..MaxN :
               (pos <= Size(v) /\ ret'.op = "Insert(v[k])" /\ InsertElemCall(v, pos, k, 0))
               => /\ ElemsOf(heap', vec', v) = InsertAt(Elems(v), pos, Elems(v)[k + 1])
                  /\ ret'.it = pos
                  /\ "read_dead" \notin faults'
          /\ (ret'.op = "PushBack(v[k])" /\ PushBackElemCall(v, k, 0))
             => /\ ElemsOf(heap', vec', v) = Append(Elems(v), Elems(v)[k + 1])
                /\ "read_dead" \notin faults']_vars

\* Insert(0, v[1]) on <<0, 1, 0>> with room left: the element referred to is
\* one of those shifted, and the Vector is <<1, 0, 1, 0>> in the same block
C20_Witness ==
  /\ env.T = TCopy /\ ret.op = "Insert(v[k])" /\ ret.status = "ok"
  /\ ret.it = 0 /\ ret.moved = {}
  /\ Elems("a") = <<1, 0, 1, 0>> /\ Capacity("a") = 4
====
